---- MODULE Spec2Model ----
(***************************************************************************)
(* Model of pygeoapi/api.py: the request handlers of the API object        *)
(* (root, api, api_conformance, describe_collections, get_features,        *)
(* get_feature, describe_processes, execute_process), the module-level     *)
(* state they share (FORMATS, API.fcmld) and the helpers they call         *)
(* (check_format, geojson2geojsonld).                                      *)
(*                                                                         *)
(* Text that the code parses (split, int, dateparse) is a sequence of      *)
(* atoms: each separator character is an atom of its own, the text between *)
(* separators is made of atoms that hold no separator.  A query parameter  *)
(* or header that is absent is a key missing from the mapping; Python's    *)
(* None as a format is the token None.  An optional value is a sequence of *)
(* length 0 (None) or 1.                                                   *)
(***************************************************************************)
EXTENDS Integers, Sequences, FiniteSets, TLC

VARIABLES
    config,     \* API.config, set by the constructor, read by every handler
    FORMATS,    \* module-level list FORMATS (api.py:59)
    fcmld,      \* API.fcmld, the attribute the jsonldify decorator sets
    pc,         \* "idle": no request in flight; "done": a handler returned or raised
    req,        \* the request handled last (endpoint and its inputs)
    resp,       \* the (headers, status, body) the handler returned, or what it raised
    calls,      \* collaborator calls the handler made, in order
    queries     \* arguments of each provider.query call the handler made

vars == <<config, FORMATS, fcmld, pc, req, resp, calls, queries>>

----------------------------------------------------------------------------
(* Bounds of the model *)

\* get_features requests handled in one behaviour (each one grows FORMATS)
MaxItemsRequests == 1
\* query parameters present in one request
MaxArgs == 2

----------------------------------------------------------------------------
(* Python values *)

None == "None"

Some(v) == <<v>>
Nothing == <<>>

InSeq(x, s) == \E i \in 1..Len(s) : s[i] = x

\* dict.get(key): None when the key is missing
Has(d, k) == k \in DOMAIN d

\* str.split(sep): the components between the separators; '' gives ['']
RECURSIVE split(_, _)
split(s, sep) ==
    IF s = <<>> THEN << <<>> >>
    ELSE LET rest == split(Tail(s), sep)
         IN  IF Head(s) = sep
               THEN << <<>> >> \o rest
               ELSE << <<Head(s)>> \o Head(rest) >> \o Tail(rest)

Digits == {"0", "1", "2", "3", "4", "5", "6", "7", "8", "9"}

DigitVal(c) ==
    CASE c = "0" -> 0 [] c = "1" -> 1 [] c = "2" -> 2 [] c = "3" -> 3
      [] c = "4" -> 4 [] c = "5" -> 5 [] c = "6" -> 6 [] c = "7" -> 7
      [] c = "8" -> 8 [] c = "9" -> 9

RECURSIVE DigitsVal(_)
DigitsVal(s) ==
    IF s = <<>> THEN 0
    ELSE DigitsVal(SubSeq(s, 1, Len(s) - 1)) * 10 + DigitVal(s[Len(s)])

IsDigits(s) == Len(s) > 0 /\ \A i \in 1..Len(s) : s[i] \in Digits

\* int(x) for x = args.get(key): TypeError on None, ValueError on text that
\* is not an optional sign followed by digits, else the number
int(d, k) ==
    IF ~Has(d, k) THEN [exc |-> "TypeError", val |-> 0]
    ELSE LET s == d[k]
             signed == Len(s) > 0 /\ s[1] \in {"-", "+"}
             body == IF signed THEN Tail(s) ELSE s
         IN  IF ~IsDigits(body) THEN [exc |-> "ValueError", val |-> 0]
             ELSE [exc |-> "",
                   val |-> IF signed /\ s[1] = "-" THEN 0 - DigitsVal(body)
                           ELSE DigitsVal(body)]

\* dateutil.parser.parse on one component: an instant, or ParserError (a
\* ValueError).  Instants are years.
DateAtoms == {"2000", "2020", "2040"}

DateVal(a) == CASE a = "2000" -> 2000 [] a = "2020" -> 2020 [] a = "2040" -> 2040

dateparse(s) ==
    IF Len(s) = 1 /\ s[1] \in DateAtoms
      THEN [exc |-> "", val |-> DateVal(s[1])]
      ELSE [exc |-> "ValueError", val |-> 0]

----------------------------------------------------------------------------
(* Configuration *)

Url == "http://srv"

ConfiguredLinks ==
    << [type |-> "text/csv", rel |-> "canonical", title |-> "data",
        href |-> [path |-> <<"http://data/obs.csv">>, f |-> "", startindex |-> Nothing],
        hreflang |-> Some("en-US")] >>

Dataset(begin, end, links) ==
    [title |-> "Observations", description |-> "My cool observations",
     keywords |-> <<"observations", "monitoring">>,
     context |-> <<"schema">>,
     links |-> links,
     extents |-> [spatial |-> [bbox |-> <<-180, -90, 180, 90>>,
                               crs |-> "http://www.opengis.net/def/crs/OGC/1.3/CRS84"],
                  temporal |-> [begin |-> begin, end |-> end]],
     provider |-> [name |-> "CSV", data |-> "obs.csv", id_field |-> "id"]]

ServerCfg == [url |-> Url, language |-> "en-US", encoding |-> "utf-8", limit |-> 2]

MetadataCfg == [identification |-> [title |-> "pygeoapi", description |-> "geospatial API"]]

\* one collection with a closed temporal extent and one process
ConfigA ==
    [server |-> ServerCfg, metadata |-> MetadataCfg,
     datasets |-> [obs |-> Dataset(Some(2010), Some(2030), ConfiguredLinks)],
     processes |-> [hello |-> [processor |-> [name |-> "HelloWorld"]]]]

\* one collection with an open temporal extent, no configured link, no process
ConfigB ==
    [server |-> ServerCfg, metadata |-> MetadataCfg,
     datasets |-> [obs |-> Dataset(Nothing, Nothing, <<>>)],
     processes |-> <<>>]

Configs == {ConfigA, ConfigB}

\* PLUGINS['formatter'].keys(), of pygeoapi/plugin.py
PLUGINS_formatter == <<"CSV">>

lower(s) == CASE s = "CSV" -> "csv" [] OTHER -> s

\* FORMATS as the module defines it
FORMATS0 == <<"json", "html", "jsonld">>

----------------------------------------------------------------------------
(* check_format *)

\* the Accept header value check_format reads: 'accept' before 'Accept'
accept_header(headers) ==
    IF Has(headers, "accept") THEN Some(headers["accept"])
    ELSE IF Has(headers, "Accept") THEN Some(headers["Accept"])
    ELSE Nothing

check_format(args, headers) ==
    IF Has(args, "f") /\ args["f"] # ""
      THEN args["f"]
      ELSE LET h == accept_header(headers)
           IN  IF h = Nothing \/ h[1] = <<>> THEN None
               ELSE LET parts == split(h[1], ",")
                    IN  IF InSeq(<<"text/html">>, parts) THEN "html"
                        ELSE IF InSeq(<<"application/ld+json">>, parts) THEN "jsonld"
                        ELSE IF InSeq(<<"application/json">>, parts) THEN "json"
                        ELSE None

----------------------------------------------------------------------------
(* Responses, documents and links *)

\* HEADERS (api.py:53); every handler starts from a copy of it
HEADERS ==
    [k \in {"Content-Type", "X-Powered-By"} |->
        IF k = "Content-Type" THEN "application/json" ELSE "pygeoapi"]

WithContentType(headers_, t) == [headers_ EXCEPT !["Content-Type"] = t]

\* the tuple a handler returns
Response(headers_, status, body) ==
    [status |-> status, headers |-> headers_, body |-> body, raised |-> ""]

\* an exception that leaves the handler: no tuple is returned
Raise(exc) ==
    [status |-> 0, headers |-> HEADERS, body |-> [kind |-> "none"], raised |-> exc]

\* json.dumps(doc)
Json(doc) == [kind |-> "json", doc |-> doc]

\* _render_j2_template(config, template, data)
Html(template, data) == [kind |-> "html", template |-> template, doc |-> data]

\* json.dumps of an exception dict {'code': ..., 'description': ...}
ExceptionResponse(headers_, status, code, description) ==
    Response(headers_, status, Json([code |-> code, description |-> description]))

InvalidFormat(headers_) ==
    ExceptionResponse(headers_, 400, "InvalidParameterValue", "Invalid format")

\* href: the path, the f= query parameter ("" when there is none) and the
\* startindex= query parameter (Nothing when there is none)
Href(path, f, startindex) == [path |-> path, f |-> f, startindex |-> startindex]

Link(rel, type, title, href) ==
    [rel |-> rel, type |-> type, title |-> title, href |-> href, hreflang |-> Nothing]

LinkLang(rel, type, title, href, lang) ==
    [rel |-> rel, type |-> type, title |-> title, href |-> href, hreflang |-> Some(lang)]

\* a JSON value whose type the serialised document shows: a string or an array
JsonString(s) == [json |-> "string", value |-> s]
JsonArray(a) == [json |-> "array", value |-> a]

\* what a handler leaves behind: its result, FORMATS and API.fcmld after it,
\* and the collaborator calls it made
Out(r, formats, fc, cs, qs) ==
    [resp |-> r, FORMATS |-> formats, fcmld |-> fc, calls |-> cs, query |-> qs]

\* the format check every decorated handler starts with
format_rejected(format_, formats) == format_ # None /\ ~InSeq(format_, formats)

\* jsonldify: with format 'jsonld' the DataCatalog document is computed from
\* the configuration and stored in API.fcmld before the handler runs
DataCatalog(cfg) ==
    [context |-> JsonString("http://www.schema.org"), type |-> "DataCatalog",
     id |-> cfg.server.url, url |-> cfg.server.url,
     name |-> cfg.metadata.identification.title,
     description |-> cfg.metadata.identification.description]

jsonldify(cfg, fc, format_) ==
    IF format_ = "jsonld" THEN Some(DataCatalog(cfg)) ELSE fc

----------------------------------------------------------------------------
(* API.root *)

root_links(cfg) ==
    LET url == cfg.server.url
        lang == cfg.server.language
    IN  << Link("self", "application/json", "This document as JSON",
                Href(<<url>>, "", Nothing)),
           Link("self", "application/ld+json", "This document as RDF (JSON-LD)",
                Href(<<url>>, "", Nothing)),
           LinkLang("self", "text/html", "This document as HTML",
                Href(<<url>>, "html", Nothing), lang),
           Link("service", "application/openapi+json;version=3.0",
                "The OpenAPI definition as JSON", Href(<<url, "api">>, "", Nothing)),
           LinkLang("self", "text/html", "The OpenAPI definition as HTML",
                Href(<<url, "api">>, "html", Nothing), lang),
           Link("conformance", "application/json", "Conformance",
                Href(<<url, "conformance">>, "", Nothing)),
           Link("data", "application/json", "Collections",
                Href(<<url, "collections">>, "", Nothing)) >>

\* the html branch appends ?f=json / ?f=jsonld to the JSON and JSON-LD links
root_html_link(link) ==
    IF link.type = "application/json" THEN [link EXCEPT !.href.f = "json"]
    ELSE IF link.type = "application/ld+json" THEN [link EXCEPT !.href.f = "jsonld"]
    ELSE link

root(cfg, fc0, formats, headers, args) ==
    LET format_ == check_format(args, headers)
        fc == jsonldify(cfg, fc0, format_)
        fcm == [title |-> cfg.metadata.identification.title,
                description |-> cfg.metadata.identification.description,
                links |-> root_links(cfg)]
    IN  IF format_rejected(format_, formats)
          THEN Out(InvalidFormat(HEADERS), formats, fc, <<>>, <<>>)
        ELSE IF format_ = "html"
          THEN Out(Response(WithContentType(HEADERS, "text/html"), 200,
                       Html("root.html",
                            [fcm EXCEPT !.links =
                                [i \in 1..Len(fcm.links) |-> root_html_link(fcm.links[i])]])),
                   formats, fc, <<"render">>, <<>>)
        ELSE IF format_ = "jsonld"
          THEN Out(Response(WithContentType(HEADERS, "application/ld+json"), 200,
                       Json(fc[1])), formats, fc, <<>>, <<>>)
        ELSE Out(Response(HEADERS, 200, Json(fcm)), formats, fc, <<>>, <<>>)

----------------------------------------------------------------------------
(* API.api and API.api_conformance *)

api(cfg, fc, formats, headers, args, openapi) ==
    LET format_ == check_format(args, headers)
        path == <<cfg.server.url, "api">>
    IN  IF format_rejected(format_, formats)
          THEN Out(InvalidFormat(HEADERS), formats, fc, <<>>, <<>>)
        ELSE IF format_ = "html"
          THEN Out(Response(WithContentType(HEADERS, "text/html"), 200,
                       Html("api.html", [openapi_document_path |-> path])),
                   formats, fc, <<"render">>, <<>>)
        ELSE Out(Response(WithContentType(HEADERS, "application/openapi+json;version=3.0"),
                       200, Json(openapi)), formats, fc, <<>>, <<>>)

conformsTo ==
    << "http://www.opengis.net/spec/ogcapi-features-1/1.0/req/core",
       "http://www.opengis.net/spec/ogcapi-features-1/1.0/req/oas30",
       "http://www.opengis.net/spec/ogcapi-features-1/1.0/req/html",
       "http://www.opengis.net/spec/ogcapi-features-1/1.0/req/geojson" >>

api_conformance(cfg, fc, formats, headers, args) ==
    LET format_ == check_format(args, headers)
        conformance == [conformsTo |-> conformsTo]
    IN  IF format_rejected(format_, formats)
          THEN Out(InvalidFormat(HEADERS), formats, fc, <<>>, <<>>)
        ELSE IF format_ = "html"
          THEN Out(Response(WithContentType(HEADERS, "text/html"), 200,
                       Html("conformance.html", conformance)),
                   formats, fc, <<"render">>, <<>>)
        ELSE Out(Response(HEADERS, 200, Json(conformance)), formats, fc, <<>>, <<>>)

----------------------------------------------------------------------------
(* geojson2geojsonld *)

GeoJsonLdVocabulary == "https://geojson.org/geojson-ld/geojson-context.jsonld"

Falsy(opt) == opt = Nothing \/ opt[1] = <<>>

\* feature.get('id', None) or feature.get('properties', {}).pop('id', None)
feature_id(feature) ==
    IF ~Falsy(feature.id) THEN feature.id
    ELSE IF Has(feature.properties, "id") THEN Some(feature.properties["id"])
    ELSE Nothing

\* one pass of the loop over data['features']: the pop happens only when the
\* feature's own id is missing or falsy; a feature with no id at all is skipped
jsonld_feature(listId, feature) ==
    LET featureId == feature_id(feature)
        popped == IF ~Falsy(feature.id) THEN feature.properties
                  ELSE [k \in DOMAIN feature.properties \ {"id"} |-> feature.properties[k]]
    IN  IF featureId = Nothing
          THEN [feature EXCEPT !.properties = popped]
          ELSE [feature EXCEPT !.properties = popped, !.id = Some(listId \o featureId[1])]

\* the document geojson2geojsonld serialises; identifier is Nothing for a list
geojson2geojsonld(cfg, data, dataset, identifier) ==
    LET context == cfg.datasets[dataset].context
        id == IF identifier # Nothing /\ identifier[1] # ""
                THEN <<cfg.server.url, "collections", dataset, "items", identifier[1]>>
                ELSE <<cfg.server.url, "collections", dataset, "items">>
        isCollection == identifier = Nothing
    IN  \* {"@context": [...], **data}, data['id'] being the computed id
        Json([context |-> JsonArray(<<GeoJsonLdVocabulary>> \o context), id |-> id]
             @@ (IF isCollection
                   THEN [data EXCEPT !.features =
                           [i \in 1..Len(data.features) |->
                               jsonld_feature(id, data.features[i])]]
                   ELSE data))

----------------------------------------------------------------------------
(* API.describe_collections *)

\* nowchecker(collection.get(x)): '..' for None (and 'now'), else the instant
dategetter(x, t_ext) ==
    IF x = "begin" THEN t_ext.begin ELSE t_ext.end

collection_links(cfg, k) ==
    LET url == cfg.server.url
        v == cfg.datasets[k]
    IN  v.links
        \o << Link("item", "application/geo+json", "Features as GeoJSON",
                   Href(<<url, "collections", k, "items">>, "json", Nothing)),
              Link("item", "application/ld+json", "Features as RDF (GeoJSON-LD)",
                   Href(<<url, "collections", k, "items">>, "jsonld", Nothing)),
              Link("item", "text/html", "Features as HTML",
                   Href(<<url, "collections", k, "items">>, "html", Nothing)),
              Link("self", "application/ld+json", "This document as RDF (JSON-LD)",
                   Href(<<url, "collections", k>>, "jsonld", Nothing)),
              Link("self", "application/json", "This document as JSON",
                   Href(<<url, "collections", k>>, "json", Nothing)),
              Link("alternate", "text/html", "This document as HTML",
                   Href(<<url, "collections", k>>, "html", Nothing)) >>

collection_doc(cfg, k) ==
    LET v == cfg.datasets[k]
    IN  [id |-> k, itemType |-> "feature", title |-> v.title,
         description |-> v.description, keywords |-> v.keywords,
         extent |-> [spatial |-> v.extents.spatial,
                     temporal |-> [interval |->
                        << <<dategetter("begin", v.extents.temporal),
                             dategetter("end", v.extents.temporal)>> >>]],
         links |-> collection_links(cfg, k)]

collections_links(cfg) ==
    LET url == cfg.server.url
    IN  << Link("self", "application/json", "This document as JSON",
                Href(<<url, "collections">>, "json", Nothing)),
           Link("self", "application/ld+json", "This document as RDF (JSON-LD)",
                Href(<<url, "collections">>, "jsonld", Nothing)),
           Link("alternate", "text/html", "This document as HTML",
                Href(<<url, "collections">>, "html", Nothing)) >>

\* the html branch: fcm['links'][0]['rel'] = 'alternate'; fcm['links'][1]['rel'] = 'self'
html_relink(links) ==
    [i \in 1..Len(links) |->
        IF i = 1 THEN [links[i] EXCEPT !.rel = "alternate"]
        ELSE IF i = 2 THEN [links[i] EXCEPT !.rel = "self"]
        ELSE links[i]]

\* the keys of config['datasets'] in iteration order
dataset_ids(cfg) == <<"obs">>

jsonldlify_collection(cfg, fc, collection) ==
    [type |-> "Dataset",
     id |-> <<cfg.server.url, "collections", collection.id>>,
     url |-> <<cfg.server.url, "collections", collection.id>>,
     name |-> collection.title, description |-> collection.description,
     keywords |-> collection.keywords,
     distribution |-> [i \in 1..Len(collection.links) |->
                          [type |-> "DataDownload",
                           contentURL |-> collection.links[i].href,
                           encodingFormat |-> collection.links[i].type,
                           name |-> collection.links[i].title]]]

describe_collections(cfg, fc0, formats, headers, args, dataset) ==
    LET format_ == check_format(args, headers)
        fc == jsonldify(cfg, fc0, format_)
        ids == dataset_ids(cfg)
        single == dataset # None
        fcm == IF single
                 THEN collection_doc(cfg, dataset)
                 ELSE [collections |-> [i \in 1..Len(ids) |-> collection_doc(cfg, ids[i])],
                       links |-> collections_links(cfg)]
    IN  IF format_rejected(format_, formats)
          THEN Out(InvalidFormat(HEADERS), formats, fc, <<>>, <<>>)
        ELSE IF single /\ ~Has(cfg.datasets, dataset)
          THEN Out(ExceptionResponse(HEADERS, 400, "InvalidParameterValue",
                                     "Invalid feature collection"),
                   formats, fc, <<>>, <<>>)
        ELSE IF format_ = "html"
          THEN Out(Response(WithContentType(HEADERS, "text/html"), 200,
                       Html(IF single THEN "collection.html" ELSE "collections.html",
                            [fcm EXCEPT !.links = html_relink(fcm.links)])),
                   formats, fc, <<"render">>, <<>>)
        ELSE IF format_ = "jsonld"
          THEN Out(Response(WithContentType(HEADERS, "application/ld+json"), 200,
                       \* jsonld = self.fcmld.copy(); jsonld['dataset'] = ...
                       Json([dataset |-> IF single
                                THEN <<jsonldlify_collection(cfg, fc[1], fcm)>>
                                ELSE [i \in 1..Len(fcm.collections) |->
                                        jsonldlify_collection(cfg, fc[1], fcm.collections[i])]]
                            @@ fc[1])),
                   formats, fc, <<>>, <<>>)
        ELSE Out(Response(HEADERS, 200, Json(fcm)), formats, fc, <<>>, <<>>)

----------------------------------------------------------------------------
(* API.get_features: query parameters *)

\* formats = FORMATS; formats.extend(...): the local name is the module's list
items_formats(formats) ==
    formats \o [i \in 1..Len(PLUGINS_formatter) |-> lower(PLUGINS_formatter[i])]

\* try: int(args.get('startindex')) except TypeError: 0
parse_startindex(args) ==
    LET r == int(args, "startindex")
    IN  IF r.exc = "TypeError" THEN [exc |-> "", val |-> 0] ELSE r

\* try: int(args.get('limit')) except TypeError: config['server']['limit']
parse_limit(cfg, args) ==
    LET r == int(args, "limit")
    IN  IF r.exc = "TypeError" THEN [exc |-> "", val |-> cfg.server.limit] ELSE r

\* args.get('resulttype') or 'results'
parse_resulttype(args) ==
    IF Has(args, "resulttype") /\ args["resulttype"] # <<>>
      THEN args["resulttype"] ELSE <<"results">>

\* parse_bbox with the count of components left unchecked
parse_bbox_unchecked(args) ==
    IF ~Has(args, "bbox") THEN [error |-> FALSE, val |-> <<>>]
    ELSE [error |-> FALSE, val |-> split(args["bbox"], ",")]

\* try: args.get('bbox').split(','), 400 unless 4 components; except
\* AttributeError: []
parse_bbox(args) ==
    IF ~Has(args, "bbox") THEN [error |-> FALSE, val |-> <<>>]
    ELSE LET bbox == split(args["bbox"], ",")
         IN  [error |-> Len(bbox) # 4, val |-> bbox]

\* one side of a range: '..' stays, anything else goes through dateparse
parse_side(s) ==
    IF s = <<"..">> THEN [exc |-> "", open |-> TRUE, val |-> 0]
    ELSE LET r == dateparse(s) IN [exc |-> r.exc, open |-> FALSE, val |-> r.val]

\* the datetime block: raises, or says whether the parameter is out of range
check_datetime(args, te) ==
    IF ~Has(args, "datetime") THEN [exc |-> "", invalid |-> FALSE]
    ELSE LET datetime_ == args["datetime"]
         IN  IF InSeq("/", datetime_)
               THEN LET parts == split(datetime_, "/")
                    IN  IF Len(parts) # 2 THEN [exc |-> "ValueError", invalid |-> FALSE]
                        ELSE LET b == parse_side(parts[1])
                                 e == parse_side(parts[2])
                             IN  IF b.exc # "" THEN [exc |-> b.exc, invalid |-> FALSE]
                                 ELSE IF e.exc # "" THEN [exc |-> e.exc, invalid |-> FALSE]
                                 ELSE [exc |-> "",
                                       invalid |->
                                          \/ te.begin # Nothing /\ ~b.open /\ b.val < te.begin[1]
                                          \/ te.end # Nothing /\ ~e.open /\ e.val > te.end[1]]
               ELSE LET d == dateparse(datetime_)
                    IN  IF d.exc # "" THEN [exc |-> d.exc, invalid |-> FALSE]
                        ELSE [exc |-> "",
                              invalid |->
                                 \/ te.begin # Nothing /\ d.val < te.begin[1]
                                 \/ te.end # Nothing /\ d.val > te.end[1]]

reserved_fieldnames == {"bbox", "f", "limit", "startindex", "resulttype", "datetime"}

\* the (k, v) pairs appended to properties
select_properties(args, fields) ==
    [k \in {a \in DOMAIN args : a \notin reserved_fieldnames /\ a \in fields} |-> args[k]]

\* the first loop over sorts: the entries parsed so far, or the first failure
RECURSIVE parse_sorts(_)
parse_sorts(sorts) ==
    IF sorts = <<>> THEN [exc |-> "", error |-> "", sortby |-> <<>>]
    ELSE LET s == Head(sorts)
             parts == split(s, ":")
         IN  IF InSeq(":", s) /\ Len(parts) # 2
               THEN [exc |-> "ValueError", error |-> "", sortby |-> <<>>]
             ELSE IF InSeq(":", s) /\ parts[2] \notin {<<"A">>, <<"D">>}
               THEN [exc |-> "", error |-> "sort order should be A or D", sortby |-> <<>>]
             ELSE LET rest == parse_sorts(Tail(sorts))
                      entry == IF InSeq(":", s)
                                 THEN [property |-> parts[1], order |-> parts[2]]
                                 ELSE [property |-> s, order |-> <<"A">>]
                  IN  IF rest.exc # "" \/ rest.error # "" THEN rest
                      ELSE [rest EXCEPT !.sortby = <<entry>> \o rest.sortby]

\* a property name is one atom; p.fields.keys() is a set of names
known_property(prop, fields) == Len(prop) = 1 /\ prop[1] \in fields

parse_sortby(args, fields) ==
    IF ~Has(args, "sortby") THEN [exc |-> "", error |-> "", sortby |-> <<>>]
    ELSE LET r == parse_sorts(split(args["sortby"], ","))
         IN  IF r.exc # "" \/ r.error # "" THEN r
             ELSE IF \E i \in 1..Len(r.sortby) : ~known_property(r.sortby[i].property, fields)
               THEN [exc |-> "", error |-> "bad sort property", sortby |-> <<>>]
             ELSE r

----------------------------------------------------------------------------
(* API.get_features: provider, links, rendering *)

\* what the provider raised: the exception class and its message
Error(type, message) == [type |-> type, message |-> message]

\* provider_error with str(err) as the description
provider_error_leaking(headers_, err) ==
    ExceptionResponse(headers_, 500, "NoApplicableCode", err.message)

\* what an except clause of the provider try blocks turns an error into
provider_error(headers_, err) ==
    ExceptionResponse(headers_, 500, "NoApplicableCode",
        IF err.type = "ProviderConnectionError" THEN "connection error (check logs)"
        ELSE "query error (check logs)")

\* page_limit with the limit of the request
page_limit_requested(cfg, limit) == limit

\* the limit the prev and next links are computed with
page_limit(cfg, limit) == cfg.server.limit

prev_startindex(cfg, startindex, limit) ==
    IF startindex - page_limit(cfg, limit) < 0 THEN 0
    ELSE startindex - page_limit(cfg, limit)

next_startindex(cfg, startindex, limit) == startindex + page_limit(cfg, limit)

\* rel of the GeoJSON, JSON-LD and HTML links of an items or item document
geojson_rel(format_) == IF format_ = "json" THEN "self" ELSE "alternate"
jsonld_rel(format_) == IF format_ # "json" THEN "self" ELSE "alternate"
html_rel(format_) == IF format_ # "html" THEN "alternate" ELSE "self"

items_links(cfg, dataset, format_, startindex, limit) ==
    LET items == <<cfg.server.url, "collections", dataset, "items">>
    IN  << Link(geojson_rel(format_), "application/geo+json", "This document as GeoJSON",
                Href(items, "json", Nothing)),
           Link(jsonld_rel(format_), "application/ld+json", "This document as RDF (JSON-LD)",
                Href(items, "jsonld", Nothing)),
           Link(html_rel(format_), "text/html", "This document as HTML",
                Href(items, "html", Nothing)),
           Link("prev", "application/geo+json", "items (prev)",
                Href(items \o <<"">>, "", Some(prev_startindex(cfg, startindex, limit)))),
           Link("next", "application/geo+json", "items (next)",
                Href(items \o <<"">>, "", Some(next_startindex(cfg, startindex, limit)))),
           Link("collection", "application/json", cfg.datasets[dataset].title,
                Href(<<cfg.server.url, "collections", dataset>>, "", Nothing)) >>

\* the arguments of p.query
Query(startindex, limit, resulttype, bbox, datetime, properties, sortby) ==
    [startindex |-> startindex, limit |-> limit, resulttype |-> resulttype,
     bbox |-> bbox, datetime |-> datetime, properties |-> properties,
     sortby |-> sortby]

\* the FeatureCollection p.query returns
FeatureCollection(features) == [type |-> "FeatureCollection", features |-> features]

\* everything after a successful p.query
items_render(cfg, formats, fc, dataset, format_, startindex, limit, content0, q, prov) ==
    LET content == [type |-> content0.type, features |-> content0.features,
                    links |-> items_links(cfg, dataset, format_, startindex, limit),
                    \* datetime.utcnow(): the clock is not part of the model
                    timeStamp |-> "utcnow"]
        path_info == <<cfg.server.url, "collections", dataset, "items">>
        loaded == <<"load_plugin:provider", "query">>
    IN  IF format_ = "html"
          THEN Out(Response(WithContentType(HEADERS, "text/html"), 200,
                       Html("items.html",
                            [type |-> content.type, features |-> content.features,
                             links |-> content.links, timeStamp |-> content.timeStamp,
                             items_path |-> path_info,
                             dataset_path |-> SubSeq(path_info, 1, Len(path_info) - 1),
                             collections_path |-> SubSeq(path_info, 1, Len(path_info) - 2),
                             startindex |-> startindex])),
                   formats, fc, loaded \o <<"render">>, <<q>>)
        ELSE IF format_ = "csv"
          THEN Out(Response(
                       [k \in DOMAIN HEADERS \cup {"Content-Disposition"} |->
                           IF k = "Content-Type" THEN "text/csv; charset=" \o cfg.server.encoding
                           ELSE IF k = "Content-Disposition"
                             THEN "attachment; filename=" \o dataset \o ".csv"
                           ELSE HEADERS[k]],
                       200, [kind |-> "csv", doc |-> content]),
                   formats, fc, loaded \o <<"load_plugin:formatter", "write">>, <<q>>)
        ELSE IF format_ = "jsonld"
          THEN Out(Response(WithContentType(HEADERS, "application/ld+json"), 200,
                       geojson2geojsonld(cfg, content, dataset, Nothing)),
                   formats, fc, loaded, <<q>>)
        ELSE Out(Response(HEADERS, 200, Json(content)), formats, fc, loaded, <<q>>)

\* from 'Loading provider' to the p.query call
items_query(cfg, formats, fc, args, dataset, format_, startindex, limit, bbox, prov) ==
    LET properties == select_properties(args, prov.fields)
        sb == parse_sortby(args, prov.fields)
        q == Query(startindex, limit, parse_resulttype(args), bbox,
                   IF Has(args, "datetime") THEN Some(args["datetime"]) ELSE Nothing,
                   properties, sb.sortby)
        loaded == <<"load_plugin:provider">>
    IN  IF prov.load # "ok"
          THEN Out(provider_error(HEADERS, Error(prov.load, prov.message)), formats, fc,
                   loaded, <<>>)
        ELSE IF sb.exc # ""
          THEN Out(Raise(sb.exc), formats, fc, loaded, <<>>)
        ELSE IF sb.error # ""
          THEN Out(ExceptionResponse(HEADERS, 400, "InvalidParameterValue", sb.error),
                   formats, fc, loaded, <<>>)
        ELSE IF prov.query # "ok"
          THEN Out(provider_error(HEADERS, Error(prov.query, prov.message)), formats, fc,
                   loaded \o <<"query">>, <<q>>)
        ELSE items_render(cfg, formats, fc, dataset, format_, startindex, limit,
                          FeatureCollection(prov.features), q, prov)

\* the parameter checks that come before the provider is loaded
items_validate(cfg, formats, fc, headers, args, dataset, prov) ==
    LET format_ == check_format(args, headers)
        startindex == parse_startindex(args)
        limit == parse_limit(cfg, args)
        bbox == parse_bbox(args)
        dt == check_datetime(args, cfg.datasets[dataset].extents.temporal)
    IN  IF format_rejected(format_, formats)
          THEN Out(InvalidFormat(HEADERS), formats, fc, <<>>, <<>>)
        ELSE IF startindex.exc # ""
          THEN Out(Raise(startindex.exc), formats, fc, <<>>, <<>>)
        ELSE IF limit.exc # ""
          THEN Out(Raise(limit.exc), formats, fc, <<>>, <<>>)
        ELSE IF bbox.error
          THEN Out(ExceptionResponse(HEADERS, 400, "InvalidParameterValue",
                                     "bbox values should be minx,miny,maxx,maxy"),
                   formats, fc, <<>>, <<>>)
        ELSE IF dt.exc # ""
          THEN Out(Raise(dt.exc), formats, fc, <<>>, <<>>)
        ELSE IF dt.invalid
          THEN Out(ExceptionResponse(HEADERS, 400, "InvalidParameterValue",
                                     "datetime parameter out of range"),
                   formats, fc, <<>>, <<>>)
        ELSE items_query(cfg, formats, fc, args, dataset, format_,
                         startindex.val, limit.val, bbox.val, prov)

get_features(cfg, fc, formats0, headers, args, dataset, prov) ==
    LET formats == items_formats(formats0)
    IN  IF ~Has(cfg.datasets, dataset)
          THEN Out(ExceptionResponse(HEADERS, 400, "InvalidParameterValue",
                                     "Invalid feature collection"),
                   formats, fc, <<>>, <<>>)
          ELSE items_validate(cfg, formats, fc, headers, args, dataset, prov)

----------------------------------------------------------------------------
(* API.get_feature *)

item_links(cfg, dataset, identifier, format_) ==
    LET item == <<cfg.server.url, "collections", dataset, "items", identifier>>
    IN  << Link(geojson_rel(format_), "application/geo+json", "This document as GeoJSON",
                Href(item, "json", Nothing)),
           Link(jsonld_rel(format_), "application/ld+json", "This document as RDF (JSON-LD)",
                Href(item, "jsonld", Nothing)),
           Link(html_rel(format_), "text/html", "This document as HTML",
                Href(item, "html", Nothing)),
           Link("collection", "application/json", cfg.datasets[dataset].title,
                Href(<<cfg.server.url, "collections", dataset>>, "", Nothing)),
           Link("prev", "application/geo+json", "", Href(item, "", Nothing)),
           Link("next", "application/geo+json", "", Href(item, "", Nothing)) >>

\* load_plugin and p.get are called outside any try block: what the provider
\* raises leaves the handler
item_fetch(cfg, formats, fc, dataset, identifier, format_, prov) ==
    LET content == [id |-> prov.feature.id, properties |-> prov.feature.properties,
                    links |-> item_links(cfg, dataset, identifier, format_)]
    IN  IF prov.load # "ok"
          THEN Out(Raise(prov.load), formats, fc, <<"load_plugin:provider">>, <<>>)
        ELSE IF prov.get \notin {"ok", "None"}
          THEN Out(Raise(prov.get), formats, fc, <<"load_plugin:provider", "get">>, <<>>)
        ELSE IF prov.get = "None"
          THEN Out(ExceptionResponse(HEADERS, 404, "NotFound", "identifier not found"),
                   formats, fc, <<"load_plugin:provider", "get">>, <<>>)
        ELSE IF format_ = "html"
          THEN Out(Response(WithContentType(HEADERS, "text/html"), 200,
                       Html("item.html",
                            [content EXCEPT !.links = html_relink(content.links)])),
                   formats, fc, <<"load_plugin:provider", "get", "render">>, <<>>)
        ELSE IF format_ = "jsonld"
          THEN Out(Response(WithContentType(HEADERS, "application/ld+json"), 200,
                       geojson2geojsonld(cfg, content, dataset, Some(identifier))),
                   formats, fc, <<"load_plugin:provider", "get">>, <<>>)
        ELSE Out(Response(HEADERS, 200, Json(content)), formats, fc,
                 <<"load_plugin:provider", "get">>, <<>>)

\* get_feature answering an unknown collection with 404 NotFound
get_feature_not_found(cfg, fc, formats, headers, args, dataset, identifier, prov) ==
    LET format_ == check_format(args, headers)
    IN  IF format_rejected(format_, formats)
          THEN Out(InvalidFormat(HEADERS), formats, fc, <<>>, <<>>)
        ELSE IF ~Has(cfg.datasets, dataset)
          THEN Out(ExceptionResponse(HEADERS, 404, "NotFound", "identifier not found"),
                   formats, fc, <<>>, <<>>)
        ELSE item_fetch(cfg, formats, fc, dataset, identifier, format_, prov)

get_feature(cfg, fc, formats, headers, args, dataset, identifier, prov) ==
    LET format_ == check_format(args, headers)
    IN  IF format_rejected(format_, formats)
          THEN Out(InvalidFormat(HEADERS), formats, fc, <<>>, <<>>)
        ELSE IF ~Has(cfg.datasets, dataset)
          THEN Out(ExceptionResponse(HEADERS, 400, "InvalidParameterValue",
                                     "Invalid feature collection"),
                   formats, fc, <<>>, <<>>)
        ELSE item_fetch(cfg, formats, fc, dataset, identifier, format_, prov)

----------------------------------------------------------------------------
(* API.describe_processes *)

\* p.metadata after the handler set the two synthesized members
process_metadata(proc, listed) ==
    [id |-> proc.id, itemType |-> IF listed THEN <<"process">> ELSE <<>>,
     jobControlOptions |-> <<"sync-execute">>, outputTransmission |-> <<"value">>]

\* the keys of config['processes'] in iteration order
process_ids(cfg) == IF Has(cfg.processes, "hello") THEN <<"hello">> ELSE <<>>

describe_processes(cfg, fc0, formats, headers, args, process, proc) ==
    LET format_ == check_format(args, headers)
        fc == jsonldify(cfg, fc0, format_)
        configured == process_ids(cfg) # <<>>
        single == process # None
        loads == IF ~configured THEN <<>>
                 ELSE IF single THEN <<"load_plugin:process">>
                 ELSE [i \in 1..Len(process_ids(cfg)) |-> "load_plugin:process"]
        processes == IF configured /\ ~single
                       THEN [i \in 1..Len(process_ids(cfg)) |-> process_metadata(proc, TRUE)]
                       ELSE <<>>
    IN  IF format_rejected(format_, formats)
          THEN Out(InvalidFormat(HEADERS), formats, fc, <<>>, <<>>)
        ELSE IF configured /\ single /\ ~Has(cfg.processes, process)
          THEN Out(ExceptionResponse(HEADERS, 404, "NotFound", "identifier not found"),
                   formats, fc, <<>>, <<>>)
        ELSE IF configured /\ proc.load # "ok"
          THEN Out(Raise(proc.load), formats, fc, <<"load_plugin:process">>, <<>>)
        ELSE IF format_ = "html" /\ single /\ ~configured
          \* p was never bound: p.metadata raises
          THEN Out(Raise("UnboundLocalError"), formats, fc, <<>>, <<>>)
        ELSE IF format_ = "html"
          THEN Out(Response(WithContentType(HEADERS, "text/html"), 200,
                       IF single THEN Html("process.html", process_metadata(proc, FALSE))
                       ELSE Html("processes.html", [processes |-> processes])),
                   formats, fc, loads \o <<"render">>, <<>>)
        ELSE Out(Response(HEADERS, 200,
                     IF configured /\ single THEN Json(process_metadata(proc, FALSE))
                     ELSE Json([processes |-> processes])),
                 formats, fc, loads, <<>>)

----------------------------------------------------------------------------
(* API.execute_process *)

\* pygeoapi.util.str2bool
str2bool(v) == v \in {<<"true">>, <<"True">>, <<"1">>, <<"yes">>}

\* process_run answering a processor that raises with 500 NoApplicableCode
process_run_server_error(cfg, formats, fc, args, data, proc) ==
    LET loaded == <<"load_plugin:process">>
        raw == Has(args, "raw") /\ str2bool(args["raw"])
    IN  IF proc.load # "ok"
          THEN Out(Raise(proc.load), formats, fc, loaded, <<>>)
        ELSE IF ~data.json
          THEN Out(Raise("ValueError"), formats, fc, loaded, <<>>)
        ELSE IF ~data.inputs
          THEN Out(Raise("KeyError"), formats, fc, loaded, <<>>)
        ELSE IF proc.execute # "ok"
          THEN Out(ExceptionResponse(HEADERS, 500, "NoApplicableCode", "processing error"),
                   formats, fc, loaded \o <<"execute">>, <<>>)
        ELSE Out(Response(IF raw THEN WithContentType(HEADERS, proc.mimeType) ELSE HEADERS,
                          201,
                          Json(IF raw THEN [value |-> proc.outputs]
                               ELSE [outputs |-> proc.outputs])),
                 formats, fc, loaded \o <<"execute">>, <<>>)

\* from load_plugin to the return: data is the request body; the body is
\* parsed and its inputs read outside the try block, the processor runs and
\* its result is serialised inside it
process_run(cfg, formats, fc, args, data, proc) ==
    LET loaded == <<"load_plugin:process">>
        raw == Has(args, "raw") /\ str2bool(args["raw"])
    IN  IF proc.load # "ok"
          THEN Out(Raise(proc.load), formats, fc, loaded, <<>>)
        ELSE IF ~data.json
          THEN Out(Raise("ValueError"), formats, fc, loaded, <<>>)
        ELSE IF ~data.inputs
          THEN Out(Raise("KeyError"), formats, fc, loaded, <<>>)
        ELSE IF proc.execute # "ok"
          THEN Out(ExceptionResponse(HEADERS, 400, "InvalidParameterValue", proc.message),
                   formats, fc, loaded \o <<"execute">>, <<>>)
        ELSE Out(Response(IF raw THEN WithContentType(HEADERS, proc.mimeType) ELSE HEADERS,
                          201,
                          Json(IF raw THEN [value |-> proc.outputs]
                               ELSE [outputs |-> proc.outputs])),
                 formats, fc, loaded \o <<"execute">>, <<>>)

\* body is Nothing when the request carries no data (None or empty)
execute_process(cfg, fc, formats, headers, args, body, process, proc) ==
    IF body = Nothing
      THEN Out(ExceptionResponse(HEADERS, 400, "MissingParameterValue", "missing request data"),
               formats, fc, <<>>, <<>>)
    ELSE IF ~Has(cfg.processes, process)
      THEN Out(ExceptionResponse(HEADERS, 404, "NotFound", "identifier not found"),
               formats, fc, <<>>, <<>>)
    ELSE process_run(cfg, formats, fc, args, body[1], proc)

----------------------------------------------------------------------------
(* Requests: what the web framework adapter hands to a handler, and what   *)
(* the collaborators (provider and process plugins) do when called         *)

NoHeaders == [k \in {} |-> <<>>]

HeaderSets ==
    { NoHeaders,
      [k \in {"Accept"} |-> <<"application/json", ",", "text/html">>],
      [k \in {"ACCEPT"} |-> <<"text/html">>],
      [k \in {"accept", "Accept"} |->
          IF k = "accept" THEN <<"application/ld+json", ",", "application/json">>
          ELSE <<"text/html">>] }

ArgKeys == {"f", "startindex", "limit", "bbox", "datetime", "sortby", "resulttype",
            "name", "raw"}

ArgValues(k) ==
    CASE k = "f" -> {"json", "jsonld", "html", "csv", "xml", ""}
      [] k = "startindex" -> {<<"3">>, <<"-", "1">>, <<"x">>}
      [] k = "limit" -> {<<"1">>, <<"x">>}
      [] k = "bbox" -> {<<"1", ",", "2", ",", "3", ",", "4">>, <<"1", ",", "2", ",", "3">>,
                        <<"1", ",", "2", ",", "3", ",", "4", ",", "5">>, <<"1">>, <<>>}
      [] k = "datetime" -> {<<"2020">>, <<"2000">>, <<"2040">>, <<"2000", "/", "..">>,
                            <<"..", "/", "2040">>, <<"..", "/", "..">>,
                            <<"2020", "/", "2040", "/", "2040">>}
      [] k = "sortby" -> {<<"name", ":", "D">>, <<"name", ":", "X">>, <<"zzz">>,
                          <<"name", ":", "A", ":", "D">>,
                          <<"name", ",", "elevation", ":", "D">>,
                          <<"zzz", ",", "name", ":", "X">>}
      [] k = "resulttype" -> {<<"hits">>}
      [] k = "name" -> {<<"v">>}
      [] k = "raw" -> {<<"true">>}

\* the mappings with exactly the keys dom
RECURSIVE ArgsOn(_)
ArgsOn(dom) ==
    IF dom = {} THEN {NoHeaders}
    ELSE LET k == CHOOSE x \in dom : TRUE
         IN  UNION { { [x \in dom |-> IF x = k THEN v ELSE a[x]] : v \in ArgValues(k) }
                     : a \in ArgsOn(dom \ {k}) }

\* the mappings over the given keys with at most MaxArgs parameters
Args(keys) ==
    UNION { ArgsOn(dom) : dom \in {d \in SUBSET keys : Cardinality(d) <= MaxArgs} }

\* the headers decide the format only when f is not given or is empty; a
\* request that names a format may carry an Accept header as well
HeadersFor(args) ==
    IF Has(args, "f") /\ args["f"] # ""
      THEN {[k \in {"Accept"} |-> <<"text/html">>]}
      ELSE HeaderSets

DatasetIds == {"obs", "nope"}
ProcessIds == {"hello", "nope"}

Feature(id, properties) == [id |-> id, properties |-> properties]

F1 == Feature(Some(<<"7">>), [name |-> "a"])
F2 == Feature(Nothing, [id |-> <<"8">>, name |-> "b"])
\* a feature with its own id and properties.id, one with neither, and one
\* whose own id is falsy (0 or '', here the empty text)
F3 == Feature(Some(<<"9">>), [id |-> <<"1">>, name |-> "c"])
F4 == Feature(Nothing, [name |-> "d"])
F5 == Feature(Some(<<>>), [id |-> <<"5">>, name |-> "e"])

Provider(load, query, get, features) ==
    [load |-> load, query |-> query, get |-> get, features |-> features,
     feature |-> F1, fields |-> {"name", "elevation", "limit", "sortby"},
     message |-> "dsn=secret"]

Providers ==
    { Provider("ok", "ok", "None", <<>>),
      Provider("ok", "ok", "ok", <<F1, F2, F3, F4, F5>>),
      Provider("ProviderConnectionError", "ok", "ok", <<>>),
      Provider("ProviderQueryError", "ok", "ok", <<>>),
      Provider("ok", "ProviderConnectionError", "ProviderConnectionError", <<>>),
      Provider("ok", "ProviderQueryError", "ProviderQueryError", <<>>) }

Processor(load, execute) ==
    [id |-> "hello", load |-> load, execute |-> execute, message |-> "bad input",
     outputs |-> <<"Hello">>, mimeType |-> "text/plain"]

Processors ==
    { Processor("ok", "ok"), Processor("ok", "raise"),
      Processor("InvalidPluginError", "ok") }

Body(json, inputs) == [json |-> json, inputs |-> inputs]

Bodies == { Nothing, Some(Body(FALSE, FALSE)), Some(Body(TRUE, FALSE)),
            Some(Body(TRUE, TRUE)) }

OpenApi == [openapi |-> "3.0.2"]

Request(endpoint, headers, args, dataset, identifier, process, body, prov, proc) ==
    [endpoint |-> endpoint, headers |-> headers, args |-> args, dataset |-> dataset,
     identifier |-> identifier, process |-> process, body |-> body,
     prov |-> prov, proc |-> proc]

NoProvider == Provider("ok", "ok", "None", <<>>)
NoProcessor == Processor("ok", "ok")

\* the provider behaviours to tell apart: none for a collection the
\* configuration lacks, whose provider is never looked up
ProvidersFor(dataset) == IF dataset = "obs" THEN Providers ELSE {NoProvider}

NoRequest == Request("none", NoHeaders, NoHeaders, None, None, None, Nothing,
                     NoProvider, NoProcessor)

NoResponse == Raise("")

\* the handler the adapter routes a request to
handle(cfg, fc, formats, r) ==
    CASE r.endpoint = "root" -> root(cfg, fc, formats, r.headers, r.args)
      [] r.endpoint = "api" -> api(cfg, fc, formats, r.headers, r.args, OpenApi)
      [] r.endpoint = "conformance" -> api_conformance(cfg, fc, formats, r.headers, r.args)
      [] r.endpoint = "collections" ->
            describe_collections(cfg, fc, formats, r.headers, r.args, r.dataset)
      [] r.endpoint = "items" ->
            get_features(cfg, fc, formats, r.headers, r.args, r.dataset, r.prov)
      [] r.endpoint = "item" ->
            get_feature(cfg, fc, formats, r.headers, r.args, r.dataset, r.identifier, r.prov)
      [] r.endpoint = "processes" ->
            describe_processes(cfg, fc, formats, r.headers, r.args, r.process, r.proc)
      [] r.endpoint = "execute" ->
            execute_process(cfg, fc, formats, r.headers, r.args, r.body, r.process, r.proc)

----------------------------------------------------------------------------
(* The state machine: the API object is constructed once, then handles     *)
(* requests one after the other                                            *)

Init ==
    /\ config \in Configs
    /\ FORMATS = FORMATS0
    /\ fcmld = Nothing
    /\ pc = "idle"
    /\ req = NoRequest
    /\ resp = NoResponse
    /\ calls = <<>>
    /\ queries = <<>>

\* the handler runs on request r, from its first statement to its return
Handle(r) ==
    LET out == handle(config, fcmld, FORMATS, r)
    IN  /\ pc' = "done"
        /\ req' = r
        /\ resp' = out.resp
        /\ FORMATS' = out.FORMATS
        /\ fcmld' = out.fcmld
        /\ calls' = out.calls
        /\ queries' = out.query
        /\ UNCHANGED config

Root ==
    /\ pc = "idle"
    /\ \E args \in Args({"f"}) : \E headers \in HeadersFor(args) :
           Handle(Request("root", headers, args, None, None, None, Nothing,
                          NoProvider, NoProcessor))

Api ==
    /\ pc = "idle"
    /\ \E args \in Args({"f"}) : \E headers \in HeadersFor(args) :
           Handle(Request("api", headers, args, None, None, None, Nothing,
                          NoProvider, NoProcessor))

Conformance ==
    /\ pc = "idle"
    /\ \E args \in Args({"f"}) : \E headers \in HeadersFor(args) :
           Handle(Request("conformance", headers, args, None, None, None, Nothing,
                          NoProvider, NoProcessor))

DescribeCollections ==
    /\ pc = "idle"
    /\ \E args \in Args({"f"}) : \E headers \in HeadersFor(args) :
       \E dataset \in DatasetIds \cup {None} :
           Handle(Request("collections", headers, args, dataset, None, None, Nothing,
                          NoProvider, NoProcessor))

GetFeatures ==
    /\ pc = "idle"
    /\ Len(FORMATS) < Len(FORMATS0) + MaxItemsRequests * Len(PLUGINS_formatter)
    /\ \E args \in Args(ArgKeys) : \E headers \in HeadersFor(args) :
       \E dataset \in DatasetIds : \E prov \in ProvidersFor(dataset) :
          Handle(Request("items", headers, args, dataset, None, None, Nothing,
                         prov, NoProcessor))

GetFeature ==
    /\ pc = "idle"
    /\ \E args \in Args({"f"}) : \E headers \in HeadersFor(args) :
       \E dataset \in DatasetIds : \E prov \in ProvidersFor(dataset) :
           Handle(Request("item", headers, args, dataset, "7", None, Nothing,
                          prov, NoProcessor))

DescribeProcesses ==
    /\ pc = "idle"
    /\ \E args \in Args({"f"}) : \E headers \in HeadersFor(args) :
       \E process \in ProcessIds \cup {None} : \E proc \in Processors :
           Handle(Request("processes", headers, args, None, None, process, Nothing,
                          NoProvider, proc))

ExecuteProcess ==
    /\ pc = "idle"
    /\ \E args \in Args({"f", "raw"}) : \E headers \in HeadersFor(args) :
       \E process \in ProcessIds : \E body \in Bodies : \E proc \in Processors :
           Handle(Request("execute", headers, args, None, None, process, body,
                          NoProvider, proc))

\* the adapter sends the response; the request's data is dropped
Deliver ==
    /\ pc = "done"
    /\ pc' = "idle"
    /\ req' = NoRequest
    /\ resp' = NoResponse
    /\ calls' = <<>>
    /\ queries' = <<>>
    /\ UNCHANGED <<config, FORMATS, fcmld>>

Next ==
    \/ Root
    \/ Api
    \/ Conformance
    \/ DescribeCollections
    \/ GetFeatures
    \/ GetFeature
    \/ DescribeProcesses
    \/ ExecuteProcess
    \/ Deliver

Spec == Init /\ [][Next]_vars

----------------------------------------------------------------------------
(* Properties *)

Done(endpoint) == pc = "done" /\ req.endpoint = endpoint

Returned == resp.raised = "" /\ resp.status # 0

Called(op) == InSeq(op, calls)

Count(op) == Cardinality({i \in 1..Len(calls) : calls[i] = op})

\* the format the request resolves to
Resolved == check_format(req.args, req.headers)

\* code and description of an error body
IsError(status, code) ==
    /\ Returned
    /\ resp.status = status
    /\ resp.body.kind = "json"
    /\ Has(resp.body.doc, "code")
    /\ resp.body.doc.code = code

\* the links of the document in the response
DocLinks == IF Has(resp.body.doc, "links") THEN resp.body.doc.links ELSE <<>>

\* C1: in the items endpoint provider.query is invoked at most once per
\* request, never in a request answered with 400, and only in a request whose
\* collection id, format, bbox, datetime and sortby all pass their checks.
C1_QueryOnlyAfterValidation ==
    Done("items") =>
        /\ Count("query") <= 1
        /\ Len(queries) = Count("query")
        /\ (Returned /\ resp.status = 400) => Count("query") = 0
        /\ Count("query") = 1 =>
              /\ Has(config.datasets, req.dataset)
              /\ Resolved = None \/ InSeq(Resolved, FORMATS)
              /\ Has(req.args, "bbox") => Len(split(req.args["bbox"], ",")) = 4
              /\ LET dt == check_datetime(req.args,
                                          config.datasets[req.dataset].extents.temporal)
                 IN  dt.exc = "" /\ ~dt.invalid
              /\ LET sb == parse_sortby(req.args, req.prov.fields)
                 IN  sb.exc = "" /\ sb.error = ""

\* a request rejected for its sortby after the provider was loaded, not queried
C1_Witness ==
    /\ Done("items")
    /\ resp.status = 400
    /\ Has(req.args, "sortby")
    /\ calls = <<"load_plugin:provider">>

\* C2: requests are stateless: the response to a request is the one a newly
\* constructed API gives to it, whatever was handled before, and FORMATS
\* keeps the contents it had at start.
C2_Stateless ==
    /\ FORMATS = FORMATS0
    /\ pc = "done" =>
          LET fresh == handle(config, Nothing, FORMATS0, req).resp
          IN  /\ resp.status = fresh.status
              /\ resp.raised = fresh.raised
              /\ resp.headers = fresh.headers
              /\ resp.body = fresh.body

\* C3: no request ends in an uncaught error: every handler returns a tuple
\* whose status is one of 200, 201, 400, 404, 500.
C3_NoUncaughtError ==
    pc = "done" => Returned /\ resp.status \in {200, 201, 400, 404, 500}

\* the formats the endpoints are said to allow
AllowList(endpoint) ==
    IF endpoint = "items" THEN {"json", "html", "jsonld", "csv"}
    ELSE {"json", "html", "jsonld"}

\* C4: every endpoint answers a resolved format outside its allow-list with
\* 400 InvalidParameterValue and calls no provider and executes no process.
C4_UnsupportedFormatRejected ==
    (pc = "done" /\ Resolved # None /\ Resolved \notin AllowList(req.endpoint)) =>
        /\ IsError(400, "InvalidParameterValue")
        /\ ~Called("load_plugin:provider")
        /\ ~Called("query")
        /\ ~Called("get")
        /\ ~Called("execute")

\* the provider raised while it was loaded or while query ran
ProviderRaised ==
    \/ Called("load_plugin:provider") /\ req.prov.load # "ok"
    \/ Called("query") /\ req.prov.query # "ok"

\* C5: in the items endpoint a connection or query error of the provider,
\* at load or at query, yields 500 NoApplicableCode with one of the two fixed
\* descriptions, never the text of the provider's error.
C5_ProviderErrorOpaque ==
    (Done("items") /\ ProviderRaised) =>
        /\ IsError(500, "NoApplicableCode")
        /\ resp.body.doc.description \in
              {"connection error (check logs)", "query error (check logs)"}
        /\ resp.body.doc.description # req.prov.message

\* the provider was loaded and its query raised a query error
C5_Witness ==
    /\ Done("items")
    /\ req.prov.load = "ok"
    /\ req.prov.query = "ProviderQueryError"
    /\ Called("query")
    /\ resp.status = 500

\* C6: in the item endpoint with a known collection and an allowed format,
\* provider.get returning None yields 404 NotFound and a provider failure at
\* load or during get yields 500 NoApplicableCode.
C6_NotFoundVersusFailure ==
    (/\ Done("item")
     /\ Has(config.datasets, req.dataset)
     /\ Resolved = None \/ Resolved \in AllowList("item")) =>
        /\ (req.prov.load = "ok" /\ req.prov.get = "None") => IsError(404, "NotFound")
        /\ (req.prov.load # "ok" \/ req.prov.get \notin {"ok", "None"}) =>
              IsError(500, "NoApplicableCode")

UnknownCollection(endpoint) ==
    /\ Done(endpoint)
    /\ req.dataset # None
    /\ ~Has(config.datasets, req.dataset)

MediaTypes(format_) ==
    CASE format_ = "html" -> {"text/html"}
      [] format_ = "jsonld" -> {"application/ld+json"}
      [] OTHER -> {"application/json", "application/geo+json"}

RepresentationTitles ==
    {"This document as JSON", "This document as GeoJSON",
     "This document as RDF (JSON-LD)", "This document as HTML"}

\* the links of a document to its own representations
Representations(links) ==
    {i \in 1..Len(links) : links[i].title \in RepresentationTitles}

\* exactly one representation link is self, the one of the format rendered,
\* and the others are alternate
OneSelf(links, format_) ==
    /\ \E i \in Representations(links) :
          /\ links[i].rel = "self"
          /\ links[i].type \in MediaTypes(format_)
          /\ \A j \in Representations(links) \ {i} : links[j].rel = "alternate"

\* C8: in every successful items response with format None, json, jsonld or
\* html exactly one of the GeoJSON, JSON-LD and HTML links is self, the one of
\* the format rendered, and the other two are alternate.
C8_ItemsOneSelf ==
    (Done("items") /\ Returned /\ resp.status = 200
        /\ Resolved \in {None, "json", "jsonld", "html"}) =>
        /\ Cardinality(Representations(DocLinks)) = 3
        /\ OneSelf(DocLinks, Resolved)

\* C9: in the link sets of the root, collections and item endpoints exactly
\* one link is self for every allowed format, the one whose media type
\* matches the format, and every other representation link is alternate.
C9_OneSelf ==
    (pc = "done" /\ req.endpoint \in {"root", "collections", "item"}
        /\ Returned /\ resp.status = 200 /\ DocLinks # <<>>) =>
        /\ OneSelf(DocLinks, Resolved)
        /\ Cardinality({i \in 1..Len(DocLinks) : DocLinks[i].rel = "self"}) = 1

\* the startindex the request asks for
RequestedStartindex ==
    IF Has(req.args, "startindex") THEN int(req.args, "startindex").val ELSE 0

LinkStart(rel) ==
    {DocLinks[i].href.startindex : i \in {j \in 1..Len(DocLinks) : DocLinks[j].rel = rel}}

\* C10: every successful items response has a prev link at
\* max(0, startindex - configured limit) and a next link at
\* startindex + configured limit, whatever the startindex, the limit
\* parameter and the number of records returned.
C10_PrevNext ==
    (Done("items") /\ Returned /\ resp.status = 200) =>
        LET limit == config.server.limit
            prev == IF RequestedStartindex - limit < 0 THEN 0
                    ELSE RequestedStartindex - limit
        IN  /\ LinkStart("prev") = {Some(prev)}
            /\ LinkStart("next") = {Some(RequestedStartindex + limit)}

\* an empty page at a negative startindex, with a limit parameter that is not
\* the configured limit
C10_Witness ==
    /\ Done("items")
    /\ resp.status = 200
    /\ RequestedStartindex < 0
    /\ Has(req.args, "limit")
    /\ req.prov.features = <<>>
    /\ LinkStart("prev") = {Some(0)}

\* the limit the provider query of the request was run with
QueryLimit == queries[1].limit

\* C11: in every items response prev is max(0, startindex - limit) and next
\* is startindex + limit, limit being the limit the provider query of the
\* request was run with, so that following next from 0 serves every record
\* index once.
C11_LinksFollowQueryLimit ==
    (Done("items") /\ Returned /\ resp.status = 200) =>
        LET prev == IF RequestedStartindex - QueryLimit < 0 THEN 0
                    ELSE RequestedStartindex - QueryLimit
        IN  /\ LinkStart("prev") = {Some(prev)}
            /\ LinkStart("next") = {Some(RequestedStartindex + QueryLimit)}

\* a request with f=jsonld answered with a JSON-LD document
JsonLdRendered(endpoint) ==
    /\ Done(endpoint)
    /\ Has(req.args, "f")
    /\ req.args["f"] = "jsonld"
    /\ Returned
    /\ resp.status = 200

\* the context entries configured for the collection the request names
ConfiguredContext ==
    IF req.dataset # None /\ Has(config.datasets, req.dataset)
      THEN config.datasets[req.dataset].context
      ELSE <<>>

\* C12: every successful f=jsonld response of the root, collections, items
\* and item endpoints has an @context that is an array: the GeoJSON-LD
\* vocabulary URI first, then the collection's configured context entries in
\* their declared order, and nothing else.
C12_JsonLdContext ==
    (\E e \in {"root", "collections", "items", "item"} : JsonLdRendered(e)) =>
        /\ resp.body.doc.context.json = "array"
        /\ resp.body.doc.context.value = <<GeoJsonLdVocabulary>> \o ConfiguredContext

\* the value of the Accept header under a case-insensitive lookup of its
\* name, 'accept' before 'Accept' before any other spelling
AcceptAnyCase(headers) ==
    IF Has(headers, "accept") THEN Some(headers["accept"])
    ELSE IF Has(headers, "Accept") THEN Some(headers["Accept"])
    ELSE IF Has(headers, "ACCEPT") THEN Some(headers["ACCEPT"])
    ELSE Nothing

\* the format an Accept header value stands for
AcceptFormat(h) ==
    IF h = Nothing THEN None
    ELSE LET parts == {split(h[1], ",")[i] : i \in 1..Len(split(h[1], ","))}
         IN  IF <<"text/html">> \in parts THEN "html"
             ELSE IF <<"application/ld+json">> \in parts THEN "jsonld"
             ELSE IF <<"application/json">> \in parts THEN "json"
             ELSE None

\* C13: check_format returns the value of f verbatim whenever f is present,
\* whatever the Accept header says; without f it returns the format of the
\* Accept header, looked up case-insensitively with 'accept' preferred, html
\* before jsonld before json whatever the order of the parts, and None with
\* no match or no header.
C13_CheckFormat ==
    pc = "done" =>
        /\ Has(req.args, "f") => check_format(req.args, req.headers) = req.args["f"]
        /\ ~Has(req.args, "f") =>
              check_format(req.args, req.headers) = AcceptFormat(AcceptAnyCase(req.headers))

\* the parameter is absent or is not the text of an integer
Unparseable(k) == int(req.args, k).exc # ""

\* the request passes every check other than those of startindex and limit
\* and its provider answers
OtherwiseServed ==
    /\ Done("items")
    /\ Has(config.datasets, req.dataset)
    /\ ~format_rejected(Resolved, FORMATS)
    /\ ~parse_bbox(req.args).error
    /\ LET dt == check_datetime(req.args, config.datasets[req.dataset].extents.temporal)
       IN  dt.exc = "" /\ ~dt.invalid
    /\ LET sb == parse_sortby(req.args, req.prov.fields)
       IN  sb.exc = "" /\ sb.error = ""
    /\ req.prov.load = "ok"

\* C14: in the items endpoint a startindex that is absent or unparseable is
\* replaced by 0 and a limit that is absent or unparseable by the configured
\* default; the request is neither rejected nor aborted for it, and the
\* provider is queried with the substituted value.
C14_PagingDefaults ==
    OtherwiseServed =>
        /\ Returned
        /\ Len(queries) = 1
        /\ Unparseable("startindex") => queries[1].startindex = 0
        /\ Unparseable("limit") => queries[1].limit = config.server.limit

\* the components of the bbox parameter
BboxComponents == split(req.args["bbox"], ",")

\* C15: in the items endpoint with a known collection and an allowed format,
\* a bbox that splits on ',' into a number of components other than 4 yields
\* 400 InvalidParameterValue 'bbox values should be minx,miny,maxx,maxy'; an
\* absent bbox reaches the provider as the empty list and a bbox of 4
\* components as its 4 components in order.
C15_Bbox ==
    (/\ Done("items")
     /\ Has(config.datasets, req.dataset)
     /\ ~format_rejected(Resolved, FORMATS)) =>
        /\ (Has(req.args, "bbox") /\ Len(BboxComponents) # 4) =>
              /\ IsError(400, "InvalidParameterValue")
              /\ resp.body.doc.description = "bbox values should be minx,miny,maxx,maxy"
        /\ \A i \in 1..Len(queries) :
              queries[i].bbox = IF Has(req.args, "bbox") THEN BboxComponents ELSE <<>>

\* the sides of the datetime parameter: one for an instant, two for a range
DatetimeSides == split(req.args["datetime"], "/")

IsInstant(s) == Len(s) = 1 /\ s[1] \in DateAtoms

\* the parameter is an instant or a range whose sides are instants or '..'
DatetimeWellFormed ==
    \/ Len(DatetimeSides) = 1 /\ IsInstant(DatetimeSides[1])
    \/ /\ Len(DatetimeSides) = 2
       /\ \A i \in 1..2 : DatetimeSides[i] = <<"..">> \/ IsInstant(DatetimeSides[i])

\* a begin or instant before the extent's begin, or an end or instant after
\* the extent's end, '..' sides and unset bounds never counting
DatetimeOutOfRange ==
    LET te == config.datasets[req.dataset].extents.temporal
        b == DatetimeSides[1]
        e == DatetimeSides[Len(DatetimeSides)]
    IN  \/ te.begin # Nothing /\ b # <<"..">> /\ DateVal(b[1]) < te.begin[1]
        \/ te.end # Nothing /\ e # <<"..">> /\ DateVal(e[1]) > te.end[1]

\* C16: in the items endpoint a datetime parameter, range or instant, is
\* rejected with 400 InvalidParameterValue 'datetime parameter out of range'
\* exactly when a non-'..' begin or instant is earlier than the extent's begin
\* or a non-'..' end or instant later than the extent's end, the bound being
\* set; '..' sides and unset bounds never reject.
C16_DatetimeRange ==
    (/\ Done("items")
     /\ Has(config.datasets, req.dataset)
     /\ ~format_rejected(Resolved, FORMATS)
     /\ ~parse_bbox(req.args).error
     /\ Has(req.args, "datetime")
     /\ DatetimeWellFormed) =>
        ((/\ IsError(400, "InvalidParameterValue")
          /\ resp.body.doc.description = "datetime parameter out of range")
         <=> DatetimeOutOfRange)

\* the entries of the sortby list, each split into property and direction
SortEntries ==
    LET sorts == split(req.args["sortby"], ",")
    IN  [i \in 1..Len(sorts) |-> split(sorts[i], ":")]

\* the entry states a direction and it is not A or D
BadDirection(entry) ==
    Len(entry) > 1 /\ ~(Len(entry) = 2 /\ entry[2] \in {<<"A">>, <<"D">>})

\* the entry names a property the provider does not declare
BadProperty(entry) == ~(Len(entry[1]) = 1 /\ entry[1][1] \in req.prov.fields)

\* the sort entries the provider is to receive: a bare property ascending
ExpectedSortBy ==
    [i \in 1..Len(SortEntries) |->
        [property |-> SortEntries[i][1],
         order |-> IF Len(SortEntries[i]) = 1 THEN <<"A">> ELSE SortEntries[i][2]]]

\* the request passes every check that comes before the sortby check
ReachesSortBy ==
    /\ Done("items")
    /\ Has(config.datasets, req.dataset)
    /\ ~format_rejected(Resolved, FORMATS)
    /\ ~parse_bbox(req.args).error
    /\ Has(req.args, "datetime") => DatetimeWellFormed /\ ~DatetimeOutOfRange
    /\ req.prov.load = "ok"

\* C17: in the items endpoint a sortby list is rejected with 400
\* InvalidParameterValue exactly when some entry has a direction other than
\* A or D ('sort order should be A or D') or names a property outside the
\* provider's fields ('bad sort property'); otherwise the provider receives
\* one sort entry per element, in order, a bare property ascending.
C17_SortBy ==
    (ReachesSortBy /\ Has(req.args, "sortby")) =>
        LET direction == \E i \in 1..Len(SortEntries) : BadDirection(SortEntries[i])
            property == \E i \in 1..Len(SortEntries) : BadProperty(SortEntries[i])
        IN  IF direction \/ property
              THEN /\ IsError(400, "InvalidParameterValue")
                   /\ queries = <<>>
                   /\ \/ direction /\ resp.body.doc.description = "sort order should be A or D"
                      \/ property /\ resp.body.doc.description = "bad sort property"
              ELSE /\ Len(queries) = 1
                   /\ queries[1].sortby = ExpectedSortBy

\* the parameter names the items endpoint is said to reserve
ReservedParameters ==
    {"bbox", "f", "limit", "startindex", "resulttype", "datetime", "sortby"}

\* the request parameters that are to be forwarded as property filters
ExpectedFilters ==
    {k \in DOMAIN req.args : k \notin ReservedParameters /\ k \in req.prov.fields}

\* C18: in the items endpoint the property filters passed to provider.query
\* are exactly the request parameters outside the reserved set and inside
\* the provider's declared fields, each with its request value: a reserved
\* parameter is never forwarded, also when the provider declares a field of
\* that name, and an undeclared one is dropped without an error.
C18_PropertyFilters ==
    (Done("items") /\ Called("query")) =>
        /\ DOMAIN queries[1].properties = ExpectedFilters
        /\ \A k \in ExpectedFilters : queries[1].properties[k] = req.args[k]

\* C19: execute_process answers a request without body with 400
\* MissingParameterValue 'missing request data', whatever the process id and
\* without loading or executing a process; a body with a process id that is
\* not configured with 404 NotFound; a processor that raises during
\* execution with 400 InvalidParameterValue carrying the error's message; a
\* successful execution with 201.  It never returns 500.
C19_ExecuteProcess ==
    Done("execute") =>
        /\ req.body = Nothing =>
              /\ IsError(400, "MissingParameterValue")
              /\ resp.body.doc.description = "missing request data"
              /\ calls = <<>>
        /\ (req.body # Nothing /\ ~Has(config.processes, req.process)) =>
              /\ IsError(404, "NotFound")
              /\ calls = <<>>
        /\ (Called("execute") /\ req.proc.execute # "ok") =>
              /\ IsError(400, "InvalidParameterValue")
              /\ resp.body.doc.description = req.proc.message
        /\ (Called("execute") /\ req.proc.execute = "ok") =>
              Returned /\ resp.status = 201
        /\ resp.status # 500

\* a processor that raised while it executed a well-formed request
C19_Witness ==
    /\ Done("execute")
    /\ Called("execute")
    /\ req.proc.execute = "raise"
    /\ resp.status = 400
    /\ resp.body.doc.description = "bad input"

\* the process metadata documents of the response
MetadataDocuments ==
    IF Has(resp.body.doc, "processes")
      THEN {resp.body.doc.processes[i] : i \in 1..Len(resp.body.doc.processes)}
      ELSE {resp.body.doc}

\* C20: describe_processes called with a process id that is not configured
\* returns 404 NotFound, whether the configuration declares some processes or
\* none; called with a configured id or with no id it returns 200, and every
\* process metadata document it returns carries jobControlOptions =
\* ['sync-execute'] and outputTransmission = ['value'].
C20_DescribeProcesses ==
    (Done("processes") /\ ~format_rejected(Resolved, FORMATS) /\ req.proc.load = "ok") =>
        IF req.process # None /\ ~Has(config.processes, req.process)
          THEN IsError(404, "NotFound")
          ELSE /\ Returned
               /\ resp.status = 200
               /\ \A m \in MetadataDocuments :
                     /\ m.jobControlOptions = <<"sync-execute">>
                     /\ m.outputTransmission = <<"value">>

\* an item list rendered as JSON-LD
ItemListAsJsonLd ==
    /\ Done("items")
    /\ Returned
    /\ resp.status = 200
    /\ Resolved = "jsonld"

\* the id of the item list
ListId == <<config.server.url, "collections", req.dataset, "items">>

\* the properties without their id member
WithoutId(properties) == [k \in DOMAIN properties \ {"id"} |-> properties[k]]

\* what the rewriting is to make of one feature of the provider
RewrittenFeature(feature) ==
    IF feature.id # Nothing
      THEN [feature EXCEPT !.id = Some(ListId \o feature.id[1])]
    ELSE IF Has(feature.properties, "id")
      THEN [id |-> Some(ListId \o feature.properties["id"]),
            properties |-> WithoutId(feature.properties)]
    ELSE feature

\* C21: geojson2geojsonld on an item list sets the list id to
\* '{baseUrl}/collections/{dataset}/items' and rewrites every feature's id to
\* '{listId}/{featureId}', featureId being the feature's own id if it has
\* one (properties.id then stays) and else its properties.id, which is
\* removed from properties; a feature with neither is left as it is; the
\* number and order of the features do not change.
C21_ItemListIds ==
    ItemListAsJsonLd =>
        /\ resp.body.doc.id = ListId
        /\ Len(resp.body.doc.features) = Len(req.prov.features)
        /\ \A i \in 1..Len(req.prov.features) :
              resp.body.doc.features[i] = RewrittenFeature(req.prov.features[i])

\* the description of one known collection, in any format
SingleCollectionDescribed ==
    /\ Done("collections")
    /\ req.dataset # None
    /\ Has(config.datasets, req.dataset)
    /\ Returned
    /\ resp.status = 200

\* the titles of the three generated links to the items of a collection
ItemLinkTitles ==
    {"Features as GeoJSON", "Features as RDF (GeoJSON-LD)", "Features as HTML"}

\* the link is in the list with the rel, type, title and href given
Carries(links, link) ==
    \E j \in 1..Len(links) :
        /\ links[j].rel = link.rel
        /\ links[j].type = link.type
        /\ links[j].title = link.title
        /\ links[j].href = link.href

\* the link is among the downloads of a JSON-LD dataset, which carry no rel
Distributes(distribution, link) ==
    \E j \in 1..Len(distribution) :
        /\ distribution[j].encodingFormat = link.type
        /\ distribution[j].name = link.title
        /\ distribution[j].contentURL = link.href

\* C22: in the description of a single known collection every link the
\* configuration declares appears with the rel, type, title and href it was
\* configured with, and the three generated item links keep rel=item, for
\* every output format: the HTML rendering changes the rel of no link other
\* than the document's own self/alternate links.
C22_CollectionLinksKept ==
    SingleCollectionDescribed =>
        LET configured == config.datasets[req.dataset].links
        IN  IF Resolved = "jsonld"
              THEN LET distribution == resp.body.doc.dataset[1].distribution
                   IN  /\ \A i \in 1..Len(configured) : Distributes(distribution, configured[i])
                       /\ Cardinality({j \in 1..Len(distribution) :
                             distribution[j].name \in ItemLinkTitles}) = 3
              ELSE /\ \A i \in 1..Len(configured) : Carries(DocLinks, configured[i])
                   /\ Cardinality({j \in 1..Len(DocLinks) :
                         DocLinks[j].title \in ItemLinkTitles /\ DocLinks[j].rel = "item"}) = 3

====
